---- MODULE Spec2Model ----
(***************************************************************************)
(* Model of src/src/lib/slides.ts: the slide editor state of Home and the  *)
(* video export pipeline exportSlidesToVideo with its capture sink.        *)
(*                                                                         *)
(* Durations are held in hundredths of a second (slide.duration * 100), so *)
(* that Math.round(duration * FPS) is an integer computation with a real   *)
(* rounding step.  Fractions (progress values) are pairs <<num, den>>.     *)
(* JavaScript arrays and canvases are objects on a heap and are named by   *)
(* reference; one task of the event loop, together with the microtasks it  *)
(* triggers, is one action.                                                *)
(***************************************************************************)
EXTENDS Integers, Sequences, FiniteSets, TLC

(* ------------------------------ bounds --------------------------------- *)
MaxRuns == 2      \* calls of exportSlidesToVideo in one behaviour
MaxEvents == 2    \* edits, sink errors, thrown errors and chunks, together
MaxTicks == 3     \* pacing timers that fire in one behaviour
MaxSlides == 2    \* length of a slide array passed by a direct caller
MaxText == 6      \* characters of a text handed to renderWrappedText
MaxWidth == 6     \* maxWidth handed to renderWrappedText
EaseHalf == 10    \* easeInOutCubic is called on k / (2 * EaseHalf)
MaxCopies == 4    \* calls of duplicateSlide in one behaviour
MaxLiveRuns == 1  \* export calls in a behaviour followed to its end

(* ------------------------- program constants --------------------------- *)
FPS == 30

CANVAS_WIDTH == 720

CANVAS_HEIGHT == 1280

DefaultDuration == 3 * 100

mimeCandidates ==
  <<"video/webm;codecs=vp9", "video/webm;codecs=vp8", "video/webm">>

(* ------------------------------ helpers -------------------------------- *)
Max(a, b) == IF a >= b THEN a ELSE b

\* Math.round(n / d) for n >= 0, d > 0: the nearest integer, halves upwards.
Round(n, d) == (2 * n + d) \div (2 * d)

\* Variant: the product is truncated instead of rounded.
FrameCountFloor(duration) == Max(1, (duration * FPS) \div 100)

\* Math.max(1, Math.round(slide.duration * FPS)), duration in hundredths.
FrameCount(duration) == Max(1, Round(duration * FPS, 100))

RECURSIVE SumFrames(_, _)
SumFrames(arr, n) ==
  IF n = 0 THEN 0 ELSE SumFrames(arr, n - 1) + FrameCount(arr[n].duration)

\* slides.reduce((acc, slide) => acc + Math.max(1, ...), 0)
TotalFrames(arr) == SumFrames(arr, Len(arr))

\* Variant: the frame index is divided by frameCount.
FrameProgressOff(frame, frameCount) == <<frame, frameCount>>

\* frameCount === 1 ? 1 : frame / (frameCount - 1)
FrameProgress(frame, frameCount) ==
  IF frameCount = 1 THEN <<1, 1>> ELSE <<frame, frameCount - 1>>

defaultSlide(id) ==
  [id |-> id, title |-> "New Scene", duration |-> DefaultDuration,
   imageDataUrl |-> ""]

\* Variant: the spread comes after the id, { id, ...slide, title }.
duplicateSlideSpreadLast(slide, id) ==
  [slide EXCEPT !.title = slide.title \o " Copy"]

duplicateSlide(slide, id) ==
  [slide EXCEPT !.id = id, !.title = slide.title \o " Copy"]

(* ----------------------------- easeInOutCubic -------------------------- *)
\* Variant: the division by 2 of the second branch is missing.
easeInOutCubicWhole(t) ==
  LET n == t[1]
      d == t[2]
  IN  IF 2 * n < d THEN <<4 * n * n * n, d * d * d>>
      ELSE <<d * d * d - (2 * d - 2 * n) * (2 * d - 2 * n) * (2 * d - 2 * n),
             d * d * d>>

\* t < 0.5 ? 4 * t * t * t : 1 - Math.pow(-2 * t + 2, 3) / 2, on the
\* fraction t = n / d, as a fraction.
easeInOutCubic(t) ==
  LET n == t[1]
      d == t[2]
  IN  IF 2 * n < d THEN <<4 * n * n * n, d * d * d>>
      ELSE <<2 * d * d * d
               - (2 * d - 2 * n) * (2 * d - 2 * n) * (2 * d - 2 * n),
             2 * d * d * d>>

(* --------------------------- renderWrappedText ------------------------- *)
\* Texts are sequences of characters, "a" for any letter and " ".
\* text.split(" "): the pieces between spaces, empty pieces included.
RECURSIVE SplitAcc(_, _)
SplitAcc(rest, piece) ==
  IF rest = <<>> THEN <<piece>>
  ELSE IF Head(rest) = " " THEN <<piece>> \o SplitAcc(Tail(rest), <<>>)
       ELSE SplitAcc(Tail(rest), Append(piece, Head(rest)))

Split(text) == SplitAcc(text, <<>>)

\* line.trimEnd()
RECURSIVE TrimEnd(_)
TrimEnd(line) ==
  IF line # <<>> /\ line[Len(line)] = " "
  THEN TrimEnd(SubSeq(line, 1, Len(line) - 1)) ELSE line

RECURSIVE TrimStart(_)
TrimStart(line) ==
  IF line # <<>> /\ Head(line) = " " THEN TrimStart(Tail(line)) ELSE line

\* line.trim()
Trim(line) == TrimStart(TrimEnd(line))

\* context.measureText(s).width for a measurer that gives every character
\* the width unit.
MeasureText(str, unit) == Len(str) * unit

\* The body of for (const word of words): st holds line, currentY and the
\* fillText calls made so far.
WrapWord(st, word, maxWidth, lineHeight, unit) ==
  LET testLine == st.line \o word \o <<" ">>
  IN  IF MeasureText(testLine, unit) > maxWidth /\ st.line # <<>>
      THEN [line |-> word \o <<" ">>,
            currentY |-> st.currentY + lineHeight,
            lines |-> Append(st.lines, [text |-> TrimEnd(st.line),
                                        y |-> st.currentY])]
      ELSE [st EXCEPT !.line = testLine]

RECURSIVE WrapWords(_, _, _, _, _)
WrapWords(st, words, maxWidth, lineHeight, unit) ==
  IF words = <<>> THEN st
  ELSE WrapWords(WrapWord(st, Head(words), maxWidth, lineHeight, unit),
                 Tail(words), maxWidth, lineHeight, unit)

\* renderWrappedText(context, text, x, y, maxWidth, lineHeight): the
\* fillText calls it makes (text and y; x is the same for all) and the
\* value it returns.
renderWrappedText(text, y, maxWidth, lineHeight, unit) ==
  LET st == WrapWords([line |-> <<>>, currentY |-> y, lines |-> <<>>],
                      Split(text), maxWidth, lineHeight, unit)
      lines == IF Trim(st.line) # <<>>
               THEN Append(st.lines, [text |-> TrimEnd(st.line),
                                      y |-> st.currentY])
               ELSE st.lines
  IN  [lines |-> lines, ret |-> st.currentY + lineHeight]

(* ----------------------------- drawSlideFrame -------------------------- *)
\* Lengths on the canvas are held in tenths of a pixel, or as fractions of
\* tenths where the eased progress enters.  A surface is the list of the
\* drawing calls that show on it, each with the drawing state it was made
\* under; a context is its drawing state and its stack of saved states.
FreshState ==
  [transform |-> <<>>, globalAlpha |-> <<1, 1>>, fillStyle |-> "#000000",
   font |-> [weight |-> 400, px |-> 10], textBaseline |-> "alphabetic"]

FreshSurface == [state |-> FreshState, stack |-> <<>>, ops |-> <<>>]

\* Rectangles are <<x, y, width, height>>, the width as a fraction.
FullCanvas == <<0, 0, <<CANVAS_WIDTH * 10, 1>>, CANVAS_HEIGHT * 10>>

\* The image handed to drawSlideFrame when the slide has no bitmap.
NoImage == [bitmap |-> FALSE, width |-> 0, height |-> 0]

\* Colours the colour inputs give are opaque; the overlay is not.
Opaque(colour) == colour # "rgba(0, 0, 0, 0.35)"

\* context.save() and context.restore()
Save(c) == [c EXCEPT !.stack = Append(@, c.state)]

Restore(c) ==
  IF c.stack = <<>> THEN c
  ELSE [c EXCEPT !.state = c.stack[Len(c.stack)],
                 !.stack = SubSeq(c.stack, 1, Len(c.stack) - 1)]

SetState(c, key, value) == [c EXCEPT !.state[key] = value]

\* context.translate(0, dy)
Translate(c, dy) == [c EXCEPT !.state.transform = Append(@, dy)]

\* A drawing call: it is added to what shows, and an opaque fill of the
\* whole canvas leaves nothing of what was there before.
Paint(c, kind, what) ==
  LET op == [kind |-> kind, what |-> what, state |-> c.state]
      covers == /\ kind = "fillRect"
                /\ what = FullCanvas
                /\ Opaque(c.state.fillStyle)
                /\ c.state.globalAlpha = <<1, 1>>
                /\ c.state.transform = <<>>
  IN  [c EXCEPT !.ops = IF covers THEN <<op>> ELSE Append(@, op)]

RECURSIVE PaintLines(_, _)
PaintLines(c, lines) ==
  IF lines = <<>> THEN c
  ELSE PaintLines(Paint(c, "fillText", <<Head(lines).text, Head(lines).y>>),
                  Tail(lines))

\* The width the host's measurer gives a character in the current font:
\* half the font size.
CharWidth(c) == c.state.font.px * 5

\* renderWrappedText on the context: its fillText calls, and its value.
DrawWrappedText(c, text, y, maxWidth, lineHeight) ==
  LET out == renderWrappedText(text, y, maxWidth, lineHeight, CharWidth(c))
  IN  [c |-> PaintLines(c, out.lines), ret |-> out.ret]

\* Math.min(Math.max(frameProgress, 0), 1)
Clamp(t) ==
  IF t[1] < 0 THEN <<0, t[2]>> ELSE IF t[1] > t[2] THEN <<t[2], t[2]>> ELSE t

\* The rectangle the image is drawn into: it covers the canvas and keeps
\* the aspect of the image.  Widths and heights as fractions of tenths.
ImageRect(image) ==
  LET cw == CANVAS_WIDTH * 10
      ch == CANVAS_HEIGHT * 10
  IN  IF image.width * ch > image.height * cw
      THEN [width |-> <<image.width * ch, image.height>>, height |-> <<ch, 1>>]
      ELSE [width |-> <<cw, 1>>, height |-> <<image.height * cw, image.width>>]

\* drawSlideFrame up to its two calls of restore.
DrawBody(c, slide, image, t) ==
  LET cw == CANVAS_WIDTH * 10
      ch == CANVAS_HEIGHT * 10
      c1 == Paint(SetState(Save(c), "fillStyle", slide.backgroundColor),
                  "fillRect", FullCanvas)
      c2 == IF ~image.bitmap THEN c1
            ELSE Paint(SetState(Paint(c1, "drawImage",
                                      <<image, ImageRect(image)>>),
                                "fillStyle", "rgba(0, 0, 0, 0.35)"),
                       "fillRect", FullCanvas)
      eased == easeInOutCubic(Clamp(t))
      verticalPadding == (ch * 12) \div 100
      textAreaWidth == (cw * 85) \div 100
      accentHeight == (ch * 75) \div 10000
      baseY == IF slide.alignment = "top" THEN verticalPadding
               ELSE IF slide.alignment = "bottom"
                    THEN ch - verticalPadding * 3
                    ELSE ch \div 2 - verticalPadding
      translation == <<(eased[2] - eased[1]) * 600, eased[2]>>
      accentWidth == IF (cw * 28) * eased[1] >= 10 * 100 * eased[2]
                     THEN <<(cw * 28) * eased[1], 100 * eased[2]>>
                     ELSE <<10, 1>>
      c3 == SetState(Translate(Save(c2), translation), "globalAlpha",
                     <<4 * eased[2] + eased[1], 5 * eased[2]>>)
      c4 == Paint(SetState(c3, "fillStyle", slide.accentColor), "fillRect",
                  <<(cw * 75) \div 1000, baseY, accentWidth, accentHeight>>)
      c5 == SetState(SetState(SetState(c4, "fillStyle", slide.textColor),
                              "font",
                              [weight |-> 700,
                               px |-> (CANVAS_HEIGHT * 7) \div 100]),
                     "textBaseline", "top")
      title == DrawWrappedText(c5, slide.title,
                               baseY + accentHeight + (ch * 2) \div 100,
                               textAreaWidth, (ch * 75) \div 1000)
      c6 == SetState(title.c, "font",
                     [weight |-> 400, px |-> (CANVAS_HEIGHT * 35) \div 1000])
  IN  DrawWrappedText(c6, slide.subtitle, title.ret + (ch * 35) \div 1000,
                      textAreaWidth, (ch * 5) \div 100).c

\* Variant: the inner save has no restore.
drawSlideFrameOneRestore(c, slide, image, t) ==
  Restore(DrawBody(c, slide, image, t))

\* drawSlideFrame(context, canvas, slide, image, frameProgress)
drawSlideFrame(c, slide, image, t) ==
  Restore(Restore(DrawBody(c, slide, image, t)))

(* ------------------------------- inputs -------------------------------- *)
\* Durations the duration field is set to (one frame, two frames).
Durations == {1, 6}

\* Image references: none, one that decodes, one that fails to decode.
ImageUrls == {"", "ok", "broken"}

\* Arrays handed to exportSlidesToVideo by a direct caller: the empty one
\* and arrays whose slides take two frames and one frame in turn.
InputSlide(n) ==
  [id |-> 100 + n, title |-> "In", duration |-> IF n % 2 = 1 THEN 6 ELSE 1,
   imageDataUrl |-> ""]

\* An array of full length whose first image fails to decode and whose
\* second image decodes.
ImageSlide(n) ==
  [InputSlide(n) EXCEPT
     !.imageDataUrl = IF n = 1 THEN "broken" ELSE IF n = 2 THEN "ok" ELSE ""]

InputArrays ==
  {[i \in 1 .. n |-> InputSlide(i)] : n \in 0 .. MaxSlides}
    \cup {[i \in 1 .. MaxSlides |-> ImageSlide(i)]}

\* Values handleChange can write: <<key, value>>.
Changes ==
  ({"duration"} \X Durations) \cup ({"imageDataUrl"} \X (ImageUrls \ {""}))

\* Hosts: presence of MediaRecorder, of a 2d context, of isTypeSupported,
\* of requestFrame on the video track of a canvas stream,
\* the types it reports as supported and the types a sink can be built for
\* ("" is the constructor without a mimeType).
Hosts ==
  { [hasMR |-> FALSE, hasContext |-> TRUE, canReport |-> TRUE,
     hasRequestFrame |-> TRUE,
     supported |-> {}, constructs |-> {}],
    [hasMR |-> TRUE, hasContext |-> FALSE, canReport |-> TRUE,
     hasRequestFrame |-> TRUE,
     supported |-> {}, constructs |-> {}],
    [hasMR |-> TRUE, hasContext |-> TRUE, canReport |-> TRUE,
     hasRequestFrame |-> TRUE,
     supported |-> {"video/webm;codecs=vp8", "video/webm"},
     constructs |-> {"video/webm;codecs=vp8", "video/webm", ""}] }

\* Hosts that have MediaRecorder and a 2d context, with every way of
\* reporting support and of building sinks.
SinkHosts ==
  LET types == {mimeCandidates[i] : i \in DOMAIN mimeCandidates}
  IN  { [hasMR |-> TRUE, hasContext |-> TRUE, canReport |-> c,
         hasRequestFrame |-> TRUE,
         supported |-> s, constructs |-> k] :
          c \in BOOLEAN, s \in SUBSET types, k \in SUBSET (types \cup {""}) }

\* Texts of up to MaxText characters.
Texts == UNION {[1 .. n -> {"a", " "}] : n \in 0 .. MaxText}

\* Calls of renderWrappedText: the text, the cursor, the width allowed, the
\* line height and the width the measurer gives a character.
WrapCalls ==
  [fn : {"wrap"}, text : Texts, y : {0, 40}, maxWidth : 1 .. MaxWidth,
   lineHeight : {10, 96}, unit : {1, 2},
   done : {FALSE}, lines : {<<>>}, ret : {0}]

\* Calls of easeInOutCubic on two points a <= b of the grid on [0, 1].
EaseCalls ==
  {c \in [fn : {"ease"}, a : 0 .. 2 * EaseHalf, b : 0 .. 2 * EaseHalf,
          done : {FALSE}, fa : {<<0, 1>>}, fb : {<<0, 1>>}] : c.a <= c.b}

\* Slides as drawSlideFrame reads them: a short title, and a title of
\* two words that does not fit on one line.
Letters(n) == [i \in 1 .. n |-> "a"]

DrawSlides ==
  { [title |-> Letters(3), subtitle |-> Letters(5) \o <<" ">> \o Letters(2),
     backgroundColor |-> "#111827", textColor |-> "#f9fafb",
     accentColor |-> "#f97316", alignment |-> "center"],
    [title |-> Letters(8) \o <<" ">> \o Letters(8), subtitle |-> <<>>,
     backgroundColor |-> "#ffffff", textColor |-> "#000000",
     accentColor |-> "#f97316", alignment |-> "top"],
    [title |-> <<>>, subtitle |-> Letters(4),
     backgroundColor |-> "#111827", textColor |-> "#f9fafb",
     accentColor |-> "#00ff00", alignment |-> "bottom"] }

\* No bitmap, a bitmap wider than the canvas is, a bitmap as the canvas.
DrawImages ==
  {NoImage, [bitmap |-> TRUE, width |-> 1600, height |-> 900],
   [bitmap |-> TRUE, width |-> CANVAS_WIDTH, height |-> CANVAS_HEIGHT]}

\* Progress values: in range and out of range.
DrawProgress == {<<-1, 2>>, <<0, 2>>, <<1, 2>>, <<2, 2>>, <<3, 2>>}

DrawArgs == DrawSlides \X DrawImages \X DrawProgress

\* Slides with all their fields, as duplicateSlide gets them: the default
\* slide and edited ones, with and without image reference.
FullSlides ==
  LET base == [id |-> 1, title |-> "New Scene",
               subtitle |-> "Tap to edit your message",
               backgroundColor |-> "#111827", textColor |-> "#f9fafb",
               accentColor |-> "#f97316", duration |-> DefaultDuration,
               imageDataUrl |-> "", alignment |-> "center"]
  IN  { base,
        [base EXCEPT !.imageDataUrl = "ok", !.alignment = "top"],
        [base EXCEPT !.title = "", !.duration = 50, !.subtitle = ""],
        [base EXCEPT !.title = "Sale", !.backgroundColor = "#ffffff",
                     !.imageDataUrl = "broken", !.alignment = "bottom"],
        [base EXCEPT !.id = 7, !.title = "New Scene Copy",
                     !.duration = 1000, !.accentColor = "#00ff00"] }

\* Hosts that can do all the export needs, with and without requestFrame
\* on the video track.
CaptureHosts ==
  { [h EXCEPT !.hasRequestFrame = b] :
      h \in {g \in Hosts : g.hasMR /\ g.hasContext}, b \in BOOLEAN }

Runs == 1 .. MaxRuns

Blank == [by |-> 0, index |-> 0, frame |-> 0]

NoRun ==
  [pc |-> "unused", caller |-> "none", slides |-> 0, snap |-> <<>>,
   probed |-> <<>>, canvas |-> 0, rec |-> "none", mime |-> "",
   stopQueued |-> FALSE, totalFrames |-> 0, images |-> <<>>,
   decoded |-> <<>>, delivered |-> <<>>,
   index |-> 0, frame |-> 0, frameCount |-> 0,
   slide |-> defaultSlide(0), image |-> "null",
   capturedFrames |-> 0, requested |-> 0,
   steps |-> <<>>, waits |-> 0, elapsed |-> 0,
   rendered |-> <<>>, progress |-> <<>>, chunks |-> <<>>,
   promise |-> "none", error |-> "", result |-> <<>>]

(* ------------------------------- state --------------------------------- *)
VARIABLES
  host,            \* the host's capabilities
  heap,            \* slide arrays, by reference
  slides,          \* Home: reference of the current slide array
  activeSlideId,   \* Home: activeSlideId (0 stands for "")
  nextId,          \* ids handed out by createSlideId so far
  exportState,     \* Home: exportState
  exportProgress,  \* Home: exportProgress
  alerts,          \* messages shown by window.alert
  downloads,       \* blobs handed to the download anchor
  canvases,        \* canvas elements, by reference: what is drawn on each
  run,             \* the invocations of exportSlidesToVideo
  budget,          \* what is left of the bounds
  calc             \* a call of one of the pure functions: input and output

vars ==
  <<host, heap, slides, activeSlideId, nextId, exportState, exportProgress,
    alerts, downloads, canvases, run, budget, calc>>

NoCalc == [fn |-> "none"]

\* Home as it is after its first render, before any export.
Mounted ==
  /\ heap = (1 :> <<defaultSlide(1)>>)
  /\ slides = 1
  /\ activeSlideId = 1
  /\ nextId = 1
  /\ exportState = "idle"
  /\ exportProgress = <<0, 1>>
  /\ alerts = <<>>
  /\ downloads = <<>>
  /\ canvases = <<>>
  /\ run = [r \in Runs |-> NoRun]
  /\ budget = [events |-> MaxEvents, ticks |-> MaxTicks]

Init ==
  /\ host \in Hosts
  /\ Mounted
  /\ calc = NoCalc

(* --------------------- one task, as a state update --------------------- *)
\* The part of the state the handlers write, as one record, so that the
\* statements of a handler compose in program order.
World ==
  [heap |-> heap, slides |-> slides, activeSlideId |-> activeSlideId,
   nextId |-> nextId, exportState |-> exportState,
   exportProgress |-> exportProgress, alerts |-> alerts,
   downloads |-> downloads, canvases |-> canvases, run |-> run]

\* Arrays nothing refers to any more are collected.
Collect(w) ==
  [ref \in DOMAIN w.heap |->
     IF ref = w.slides \/ \E r \in Runs : w.run[r].slides = ref
     THEN w.heap[ref] ELSE <<>>]

Commit(w) ==
  /\ heap' = Collect(w)
  /\ slides' = w.slides
  /\ activeSlideId' = w.activeSlideId
  /\ nextId' = w.nextId
  /\ exportState' = w.exportState
  /\ exportProgress' = w.exportProgress
  /\ alerts' = w.alerts
  /\ downloads' = w.downloads
  /\ canvases' = w.canvases
  /\ run' = w.run

setExportState(w, s) == [w EXCEPT !.exportState = s]

(* --------------------------- handleExport ------------------------------ *)
\* finally { setExportState("idle"); setExportProgress(0); }
ExportFinally(w) ==
  [setExportState(w, "idle") EXCEPT !.exportProgress = <<0, 1>>]

\* The statements after the await, when the export resolved with blob.
ExportSaved(w, blob) ==
  ExportFinally([setExportState(w, "saving") EXCEPT
                   !.downloads = Append(@, blob)])

\* Variant: the download is made on the failure path too.
ExportFailedSaves(w, err) ==
  ExportFinally([w EXCEPT !.alerts = Append(@, err),
                          !.downloads =
                             Append(@, [parts |-> <<>>, type |-> "video/webm"])])

\* catch (error) { console.error; window.alert(message) } finally { ... }
ExportFailed(w, err) ==
  ExportFinally([w EXCEPT !.alerts = Append(@, err)])

\* The progress callback handleExport passes to exportSlidesToVideo.
ExportOnProgress(w, p) ==
  [setExportState(w, "rendering") EXCEPT !.exportProgress = p]

(* ------------------- settling the promise of a run --------------------- *)
\* new Blob(chunks, { type: recorder.mimeType || "video/webm" })
MakeBlob(chunks, mime) ==
  [parts |-> chunks, type |-> IF mime = "" THEN "video/webm" ELSE mime]

\* reject(error), or a throw of the async function: a settled promise stays
\* as it is; the awaiting caller continues in the same microtask checkpoint.
Reject(w, r, err) ==
  IF w.run[r].promise # "pending" THEN w
  ELSE LET w1 == [w EXCEPT !.run[r].promise = "rejected",
                           !.run[r].error = err]
       IN  IF w.run[r].caller = "home" THEN ExportFailed(w1, err) ELSE w1

\* resolve() of the stop listener, then the return of the Blob.
Resolve(w, r) ==
  IF w.run[r].promise # "pending" THEN w
  ELSE LET blob == MakeBlob(w.run[r].chunks, w.run[r].mime)
           w1 == [w EXCEPT !.run[r].promise = "resolved",
                           !.run[r].result = <<blob>>]
       IN  IF w.run[r].caller = "home" THEN ExportSaved(w1, blob) ELSE w1

\* recorder.stop(): a recording sink becomes inactive and its stop event is
\* queued; on an inactive sink the call changes nothing.
RecorderStop(w, r) ==
  IF w.run[r].rec = "recording"
  THEN [w EXCEPT !.run[r].rec = "inactive", !.run[r].stopQueued = TRUE]
  ELSE w

(* --------------------------- the render loop --------------------------- *)
\* .catch((error) => { recorder.stop(); reject(error); })
LoopCatch(w, r, err) ==
  Reject(RecorderStop([w EXCEPT !.run[r].pc = "aborted"], r), r, err)

\* Variant: the loop ends without recorder.stop().
LoopEndNoStop(w, r) == [w EXCEPT !.run[r].pc = "loopDone"]

\* The loop has run out of slides: recorder.stop().
LoopEnd(w, r) ==
  RecorderStop([w EXCEPT !.run[r].pc = "loopDone"], r)

\* drawSlideFrame, as far as the surface is concerned: the frame replaces
\* whatever the canvas showed.  The log entry also notes which array Home
\* held while the frame was drawn.
DrawFrame(w, r) ==
  LET q == w.run[r]
      t == FrameProgress(q.frame, q.frameCount)
      shot == [by |-> r, index |-> q.index, frame |-> q.frame]
  IN  [w EXCEPT !.canvases[q.canvas] = shot,
                !.run[r].steps = <<"render">>,
                !.run[r].rendered =
                   Append(@, [index |-> q.index, frame |-> q.frame,
                              slide |-> q.slide, image |-> q.image,
                              t |-> t, during |-> w.slides])]

\* Variant: the callback gets the count from before the increment.
CallOnProgressEarly(w, r) ==
  LET q == w.run[r]
      p == <<q.capturedFrames - 1, q.totalFrames>>
      w1 == [w EXCEPT !.run[r].progress = Append(@, p)]
  IN  IF q.caller = "home" THEN ExportOnProgress(w1, p) ELSE w1

\* onProgress?.(capturedFrames / totalFrames)
CallOnProgress(w, r) ==
  LET q == w.run[r]
      p == <<q.capturedFrames, q.totalFrames>>
      w1 == [w EXCEPT !.run[r].progress = Append(@, p)]
  IN  IF q.caller = "home" THEN ExportOnProgress(w1, p) ELSE w1

\* if (videoTrack && "requestFrame" in videoTrack) videoTrack.requestFrame()
RequestFrame(w, r) ==
  IF host.hasRequestFrame
  THEN [w EXCEPT !.run[r].requested = @ + 1,
                 !.run[r].steps = Append(@, "signal")]
  ELSE w

\* The body of the inner loop for the frame the run is at, up to the await
\* of sleep.  outcome says whether drawSlideFrame or the callback throws.
LoopBody(w, r, outcome) ==
  IF outcome = "renderThrows" THEN LoopCatch(w, r, "Thrown")
  ELSE LET w1 == DrawFrame(w, r)
           w2 == [RequestFrame(w1, r) EXCEPT !.run[r].capturedFrames = @ + 1]
           w3 == [CallOnProgress(w2, r) EXCEPT
                    !.run[r].steps = Append(@, "progress")]
       IN  IF outcome = "progressThrows" /\ w.run[r].caller = "direct"
           THEN LoopCatch(w3, r, "Thrown")
           ELSE [w3 EXCEPT !.run[r].pc = "pacing",
                           !.run[r].waits = @ + 1,
                           !.run[r].steps = Append(@, "wait")]

\* The outer loop from its test index < slides.length on: the locals of the
\* slide, then the inner loop from frame 0.
RECURSIVE EnterSlide(_, _, _, _)
EnterSlide(w, r, index, outcome) ==
  LET arr == w.heap[w.run[r].slides]
      imgs == w.run[r].images
  IN  IF index < Len(arr)
      THEN LET w1 == [w EXCEPT
                        !.run[r].index = index,
                        !.run[r].frame = 0,
                        !.run[r].slide = arr[index + 1],
                        !.run[r].image =
                           IF index < Len(imgs) THEN imgs[index + 1]
                           ELSE "undefined",
                        !.run[r].frameCount =
                           FrameCount(arr[index + 1].duration)]
           IN  IF 0 < w1.run[r].frameCount
               THEN LoopBody(w1, r, outcome)
               ELSE EnterSlide(w1, r, index + 1, outcome)
      ELSE LoopEnd(w, r)

\* Variant: the inner loop tests frame <= frameCount.
LoopResumeOff(w, r, outcome) ==
  LET q == w.run[r]
  IN  IF q.frame + 1 <= q.frameCount
      THEN LoopBody([w EXCEPT !.run[r].frame = q.frame + 1], r, outcome)
      ELSE EnterSlide(w, r, q.index + 1, outcome)

\* The continuation of await sleep(1000 / FPS): frame++ and the loop tests.
LoopResume(w, r, outcome) ==
  LET q == w.run[r]
  IN  IF q.frame + 1 < q.frameCount
      THEN LoopBody([w EXCEPT !.run[r].frame = q.frame + 1], r, outcome)
      ELSE EnterSlide(w, r, q.index + 1, outcome)

\* The executor of the inner promise: the listeners, recorder.start() and
\* the loop up to its first await.
BeginRecording(w, r, outcome) ==
  EnterSlide([w EXCEPT !.run[r].rec = "recording",
                       !.run[r].capturedFrames = 0], r, 0, outcome)

(* ------------------------ exportSlidesToVideo -------------------------- *)
\* The loop over mimeCandidates from candidate i on, then the constructor
\* without a type: the sink's type, and the isTypeSupported probes made.
RECURSIVE Negotiate(_, _, _)
Negotiate(h, i, probed) ==
  IF i > Len(mimeCandidates)
  THEN [ok |-> "" \in h.constructs, mime |-> "", probed |-> probed]
  ELSE LET mime == mimeCandidates[i]
           seen == IF h.canReport THEN Append(probed, mime) ELSE probed
       IN  IF h.canReport /\ mime \notin h.supported
           THEN Negotiate(h, i + 1, seen)
           ELSE IF mime \in h.constructs
                THEN [ok |-> TRUE, mime |-> mime, probed |-> seen]
                ELSE Negotiate(h, i + 1, seen)

\* Variant: the constructor without a type is never tried.
NewRecorderNoDefault(h) ==
  LET neg == Negotiate(h, 1, <<>>)
  IN  IF neg.mime = "" THEN [neg EXCEPT !.ok = FALSE] ELSE neg

\* let recorder = null; for (const mime of mimeCandidates) { ... }
\* if (!recorder) recorder = new MediaRecorder(stream)
NewRecorder(h) == Negotiate(h, 1, <<>>)

\* Variant: one canvas, created by the first run, serves every run.
NewCanvasShared(w) ==
  IF w.canvases = <<>> THEN [w EXCEPT !.canvases = <<Blank>>] ELSE w

\* document.createElement("canvas"): a canvas no one else holds.
NewCanvas(w) == [w EXCEPT !.canvases = Append(@, Blank)]

\* A throw before the first await: the returned promise is rejected.
ExportThrow(w, r, err) == Reject([w EXCEPT !.run[r].pc = "failed"], r, err)

\* loadImage, up to the point where it waits for the decoder.
IssueDecode(slide) == IF slide.imageDataUrl = "" THEN "null" ELSE "pending"

\* Variant: onerror resolves with the image element as onload does.
DecodeResultKeeps(url) == "bitmap"

\* image.onload / image.onerror
DecodeResult(url) == IF url = "ok" THEN "bitmap" ELSE "null"

\* Variant: the run goes on as soon as one entry is there.
AnyDecoded(imgs) == \E i \in DOMAIN imgs : imgs[i] # "pending"

AllDecoded(imgs) == \A i \in DOMAIN imgs : imgs[i] # "pending"

\* Variant: the check for MediaRecorder is left out.
ensureMediaRecorderLax(h) == TRUE

\* ensureMediaRecorder returns (TRUE) or throws (FALSE).
ensureMediaRecorder(h) == h.hasMR

\* exportSlidesToVideo(slides, onProgress) from its first statement to its
\* first suspension, for the array at ref.
ExportCall(w, r, ref, caller, outcome) ==
  LET arr == w.heap[ref]
      w0 == [w EXCEPT !.run[r] =
               [NoRun EXCEPT !.pc = "called", !.caller = caller,
                             !.slides = ref, !.snap = arr,
                             !.promise = "pending",
                             !.probed = <<"MediaRecorder">>]]
  IN  IF ~ensureMediaRecorder(host) THEN ExportThrow(w0, r, "Capability")
      ELSE IF Len(arr) = 0 THEN ExportThrow(w0, r, "Validation")
      ELSE
        LET wc == NewCanvas(w0)
            w1 == [wc EXCEPT !.run[r].canvas = Len(wc.canvases)]
            neg == NewRecorder(host)
            w2 == [w1 EXCEPT !.run[r].probed = @ \o neg.probed]
            w3 == [w2 EXCEPT
                     !.run[r].mime = neg.mime,
                     !.run[r].rec = "inactive",
                     !.run[r].totalFrames = TotalFrames(arr),
                     !.run[r].images =
                        [i \in DOMAIN arr |-> IssueDecode(arr[i])],
                     !.run[r].pc = "decoding"]
        IN  IF ~host.hasContext THEN ExportThrow(w1, r, "Resource")
            ELSE IF ~neg.ok THEN ExportThrow(w2, r, "Construction")
            ELSE IF AllDecoded(w3.run[r].images)
                 THEN BeginRecording(w3, r, outcome)
                 ELSE w3

(* ------------------------------ budgets -------------------------------- *)
Outcomes ==
  IF budget.events > 0 THEN {"ok", "renderThrows", "progressThrows"}
  ELSE {"ok"}

\* A step of run r spends an event when it made the loop throw.
SpendOnThrow(w, r, b) ==
  IF w.run[r].pc = "aborted" /\ run[r].pc # "aborted"
  THEN [b EXCEPT !.events = @ - 1] ELSE b

FreeRuns == {r \in Runs : run[r].pc = "unused"}

FirstFree == CHOOSE r \in FreeRuns : \A q \in FreeRuns : r <= q

(* ------------------------------ actions -------------------------------- *)
\* The Export button (enabled while exportState is idle): handleExport up
\* to its await, and what follows when the export fails at once.
HandleExport ==
  /\ FreeRuns # {}
  /\ exportState = "idle"
  /\ \E outcome \in Outcomes :
       LET r == FirstFree
           w0 == [setExportState(World, "preparing") EXCEPT
                    !.exportProgress = <<0, 1>>]
           w1 == ExportCall(w0, r, slides, "home", outcome)
       IN  /\ Commit(w1)
           /\ budget' = SpendOnThrow(w1, r, budget)
  /\ UNCHANGED <<host, calc>>

\* exportSlidesToVideo called on an array of the caller's own, with a
\* progress callback of the caller's.
DirectExport ==
  /\ FreeRuns # {}
  /\ \E arr \in InputArrays, outcome \in Outcomes :
       LET r == FirstFree
           w0 == [World EXCEPT !.heap = ((100 + r) :> arr) @@ heap]
           w1 == ExportCall(w0, r, 100 + r, "direct", outcome)
       IN  /\ Commit(w1)
           /\ budget' = SpendOnThrow(w1, r, budget)
  /\ UNCHANGED <<host, calc>>

\* The decoder finishes image i of run r; the last one lets Promise.all
\* resolve and the run continue.
DecodeDone(r, i) ==
  /\ run[r].pc = "decoding"
  /\ i \in DOMAIN run[r].images
  /\ run[r].images[i] = "pending"
  /\ \E outcome \in Outcomes :
       LET w0 == [World EXCEPT
                    !.run[r].images[i] =
                       DecodeResult(run[r].snap[i].imageDataUrl),
                    !.run[r].decoded = Append(@, i)]
           w1 == IF AllDecoded(w0.run[r].images)
                 THEN BeginRecording(w0, r, outcome) ELSE w0
       IN  /\ Commit(w1)
           /\ budget' = SpendOnThrow(w1, r, budget)
  /\ UNCHANGED <<host, calc>>

\* The pacing timer of run r fires.
TimerFires(r) ==
  /\ run[r].pc = "pacing"
  /\ budget.ticks > 0
  /\ \E outcome \in Outcomes :
       LET w0 == [World EXCEPT !.run[r].elapsed = @ + 1]
           w1 == LoopResume(w0, r, outcome)
       IN  /\ Commit(w1)
           /\ budget' = SpendOnThrow(w1, r, [budget EXCEPT !.ticks = @ - 1])
  /\ UNCHANGED <<host, calc>>

\* The pacing timer of run r fires, as many timers as the run sets.
PacingElapses(r) ==
  /\ run[r].pc = "pacing"
  /\ \E outcome \in Outcomes :
       LET w0 == [World EXCEPT !.run[r].elapsed = @ + 1]
           w1 == LoopResume(w0, r, outcome)
       IN  /\ Commit(w1)
           /\ budget' = SpendOnThrow(w1, r, budget)
  /\ UNCHANGED <<host, calc>>

SinkLive(r) == run[r].rec = "recording" \/ run[r].stopQueued

\* Variant: the size of the data is not looked at.
OnDataAvailableAll(w, r, chunk) ==
  [w EXCEPT !.run[r].chunks = Append(@, chunk)]

\* recorder.ondataavailable = (event) => { if (size > 0) chunks.push(...) }
OnDataAvailable(w, r, chunk) ==
  IF chunk.size > 0 THEN [w EXCEPT !.run[r].chunks = Append(@, chunk)]
  ELSE w

\* The sink hands over what it encoded from the canvas its stream captures.
\* start() is called without a timeslice, so the sink hands data over once
\* it was stopped, before its stop event.  delivered notes every handover.
DataAvailable(r, size) ==
  /\ run[r].stopQueued
  /\ budget.events > 0
  /\ LET chunk == [size |-> size, by |-> canvases[run[r].canvas].by,
                   seq |-> Len(run[r].delivered) + 1]
         w0 == [World EXCEPT !.run[r].delivered = Append(@, size)]
     IN  Commit(OnDataAvailable(w0, r, chunk))
  /\ budget' = [budget EXCEPT !.events = @ - 1]
  /\ UNCHANGED <<host, calc>>

\* The "error" listener.  Whether the sink has gone inactive by itself when
\* it reports the error is up to the host; if it has, its stop event follows.
SinkError(r, inactivated) ==
  /\ SinkLive(r)
  /\ budget.events > 0
  /\ LET w0 == IF inactivated THEN RecorderStop(World, r) ELSE World
     IN  Commit(Reject(w0, r, "Sink"))
  /\ budget' = [budget EXCEPT !.events = @ - 1]
  /\ UNCHANGED <<host, calc>>

\* The "stop" listener.
StopEvent(r) ==
  /\ run[r].stopQueued
  /\ Commit(Resolve([World EXCEPT !.run[r].stopQueued = FALSE], r))
  /\ UNCHANGED <<host, budget, calc>>

(* ----------------------------- the editor ------------------------------ *)
Current(w) == w.heap[w.slides]

\* current.findIndex((slide) => slide.id === id), 1-based; 0 for -1.
FindIndex(arr, id) ==
  IF \E i \in DOMAIN arr : arr[i].id = id
  THEN CHOOSE i \in DOMAIN arr :
         arr[i].id = id /\ \A j \in DOMAIN arr : arr[j].id = id => i <= j
  ELSE 0

\* Variant: the updater changes the current array in place.
setSlidesInPlace(w, next) == [w EXCEPT !.heap[w.slides] = next]

\* setSlides with an array the updater has built: the state refers to the
\* new array, the previous array stays as it was.
setSlides(w, next) ==
  LET ref == Cardinality(DOMAIN w.heap \cap (1 .. 99)) + 1
  IN  [w EXCEPT !.heap = (ref :> next) @@ w.heap, !.slides = ref]

\* next.splice(at, 0, item) on a copy: item becomes element at + 1.
InsertAt(arr, at, item) ==
  SubSeq(arr, 1, at) \o <<item>> \o SubSeq(arr, at + 1, Len(arr))

\* next.splice(index, 1) on a copy.
RemoveAt(arr, i) == SubSeq(arr, 1, i - 1) \o SubSeq(arr, i + 1, Len(arr))

\* current.filter((slide) => slide.id !== id)
RECURSIVE FilterOut(_, _)
FilterOut(arr, id) ==
  IF arr = <<>> THEN <<>>
  ELSE IF Head(arr).id = id THEN FilterOut(Tail(arr), id)
       ELSE <<Head(arr)>> \o FilterOut(Tail(arr), id)

\* slides[0]?.id ?? ""
FirstId(arr) == IF arr = <<>> THEN 0 ELSE arr[1].id

\* The effect that repairs activeSlideId after a render.
RepairActive(w) ==
  IF \E i \in DOMAIN Current(w) : Current(w)[i].id = w.activeSlideId
  THEN w
  ELSE [w EXCEPT !.activeSlideId = FirstId(Current(w))]

updateSlide(w, id, nextSlide) ==
  setSlides(w, [i \in DOMAIN Current(w) |->
                  IF Current(w)[i].id = id THEN nextSlide
                  ELSE Current(w)[i]])

\* slides.find((slide) => slide.id === activeSlideId) ?? slides[0]
ActiveSlide(w) ==
  LET i == FindIndex(Current(w), w.activeSlideId)
  IN  IF i > 0 THEN <<Current(w)[i]>>
      ELSE IF Current(w) # <<>> THEN <<Current(w)[1]>> ELSE <<>>

handleChange(w, key, value) ==
  IF ActiveSlide(w) = <<>> THEN w
  ELSE LET a == ActiveSlide(w)[1]
       IN  updateSlide(w, a.id, [a EXCEPT ![key] = value])

handleAddSlide(w) ==
  LET id == w.nextId + 1
      w1 == setSlides(w, Append(Current(w), defaultSlide(id)))
  IN  [w1 EXCEPT !.nextId = id, !.activeSlideId = id]

handleDuplicateSlide(w, id) ==
  LET i == FindIndex(Current(w), id)
      copy == duplicateSlide(Current(w)[i], w.nextId + 1)
  IN  IF i = 0 THEN w
      ELSE [setSlides(w, InsertAt(Current(w), i, copy)) EXCEPT
              !.nextId = copy.id, !.activeSlideId = copy.id]

\* Variant: the updater filters whatever the length of the list.
handleRemoveSlideAny(w, id) ==
  LET next == FilterOut(Current(w), id)
      w1 == setSlides(w, next)
  IN  IF w.activeSlideId = id
      THEN [w1 EXCEPT !.activeSlideId = FirstId(next)] ELSE w1

handleRemoveSlide(w, id) ==
  IF Len(Current(w)) = 1 THEN w
  ELSE LET next == FilterOut(Current(w), id)
           w1 == setSlides(w, next)
       IN  IF w.activeSlideId = id
           THEN [w1 EXCEPT !.activeSlideId = FirstId(next)] ELSE w1

\* direction is -1 for "up" and 1 for "down".
handleReorder(w, id, direction) ==
  LET i == FindIndex(Current(w), id)
      target == i + direction
  IN  IF i = 0 \/ target < 1 \/ target > Len(Current(w)) THEN w
      ELSE setSlides(w, InsertAt(RemoveAt(Current(w), i), target - 1,
                                 Current(w)[i]))

SlideIds == {Current(World)[i].id : i \in DOMAIN Current(World)}

Edit(w) ==
  /\ budget.events > 0
  /\ Commit(RepairActive(w))
  /\ budget' = [budget EXCEPT !.events = @ - 1]
  /\ UNCHANGED <<host, calc>>

ChangeSlide == \E c \in Changes : Edit(handleChange(World, c[1], c[2]))

AddSlide == Edit(handleAddSlide(World))

DuplicateSlide == \E id \in SlideIds : Edit(handleDuplicateSlide(World, id))

RemoveSlide == \E id \in SlideIds : Edit(handleRemoveSlide(World, id))

ReorderSlide ==
  \E id \in SlideIds, d \in {-1, 1} : Edit(handleReorder(World, id, d))

(* --------------------------- specification ----------------------------- *)
Next ==
  \/ HandleExport
  \/ DirectExport
  \/ \E r \in Runs : \E i \in DOMAIN run[r].images : DecodeDone(r, i)
  \/ \E r \in Runs : TimerFires(r)
  \/ \E r \in Runs : \E size \in {0, 1} : DataAvailable(r, size)
  \/ \E r \in Runs : \E inactivated \in BOOLEAN : SinkError(r, inactivated)
  \/ \E r \in Runs : StopEvent(r)
  \/ ChangeSlide
  \/ AddSlide
  \/ DuplicateSlide
  \/ RemoveSlide
  \/ ReorderSlide

Spec == Init /\ [][Next]_vars

\* Export runs of direct callers to their end: every timer a run sets
\* fires, every decode comes back and every stop event is delivered.
LiveExport ==
  /\ Cardinality(Runs \ FreeRuns) < MaxLiveRuns
  /\ DirectExport

NextLive ==
  \/ LiveExport
  \/ \E r \in Runs : \E i \in DOMAIN run[r].images : DecodeDone(r, i)
  \/ \E r \in Runs : PacingElapses(r)
  \/ \E r \in Runs : \E size \in {0, 1} : DataAvailable(r, size)
  \/ \E r \in Runs : \E inactivated \in BOOLEAN : SinkError(r, inactivated)
  \/ \E r \in Runs : StopEvent(r)

\* What the host owes a run in progress: a decode result, a pacing timer
\* or a stop event.
HostOwes ==
  \E r \in Runs :
    \/ \E i \in 1 .. MaxSlides : DecodeDone(r, i)
    \/ PacingElapses(r)
    \/ StopEvent(r)

LiveSpec == Init /\ [][NextLive]_vars /\ WF_vars(HostOwes)

\* The program on the hosts that differ in how a frame is captured.
InitCapture ==
  /\ host \in CaptureHosts
  /\ Mounted
  /\ calc = NoCalc

CaptureSpec == InitCapture /\ [][Next]_vars

\* The calls of exportSlidesToVideo alone, on every host that gets as far
\* as building a sink.
InitNegotiation ==
  /\ host \in SinkHosts
  /\ Mounted
  /\ calc = NoCalc

NextNegotiation ==
  \/ HandleExport
  \/ DirectExport

NegotiationSpec == InitNegotiation /\ [][NextNegotiation]_vars

\* Home at rest on some host, for the calls of the pure functions.
AtRest ==
  /\ host \in {h \in Hosts : h.hasMR /\ h.hasContext}
  /\ Mounted

Rests == UNCHANGED <<host, heap, slides, activeSlideId, nextId, exportState,
                     exportProgress, alerts, downloads, canvases, run, budget>>

\* One call of renderWrappedText.
InitWrap == AtRest /\ calc \in WrapCalls

WrapText ==
  /\ calc.fn = "wrap"
  /\ ~calc.done
  /\ LET out == renderWrappedText(calc.text, calc.y, calc.maxWidth,
                                  calc.lineHeight, calc.unit)
     IN  calc' = [calc EXCEPT !.done = TRUE, !.lines = out.lines,
                              !.ret = out.ret]
  /\ Rests

WrapSpec == InitWrap /\ [][WrapText]_vars

\* easeInOutCubic called on two points.
InitEase == AtRest /\ calc \in EaseCalls

Ease ==
  /\ calc.fn = "ease"
  /\ ~calc.done
  /\ calc' = [calc EXCEPT
                !.done = TRUE,
                !.fa = easeInOutCubic(<<calc.a, 2 * EaseHalf>>),
                !.fb = easeInOutCubic(<<calc.b, 2 * EaseHalf>>)]
  /\ Rests

EaseSpec == InitEase /\ [][Ease]_vars

\* Frames drawn one after the other on one canvas: calc holds the canvas
\* and its context, and what the last two calls were given.
InitDraw ==
  /\ AtRest
  /\ calc = [fn |-> "draw", c |-> FreshSurface, args |-> <<>>, prev |-> <<>>]

Draw ==
  /\ calc.fn = "draw"
  /\ \E a \in DrawArgs :
       calc' = [calc EXCEPT !.c = drawSlideFrame(calc.c, a[1], a[2], a[3]),
                            !.args = a, !.prev = calc.args]
  /\ Rests

DrawSpec == InitDraw /\ [][Draw]_vars

\* createSlideId(): an id that is not in use; ids are numbered.
createSlideId(last) == last + 1

\* duplicateSlide called on slide objects: calc holds the objects there
\* are, the id given out last, the object the last call was given, the one
\* it returned, and what the former looked like before the call.
InitDuplicate ==
  /\ AtRest
  /\ \E slide \in FullSlides :
       calc = [fn |-> "duplicate", objs |-> <<slide>>, lastId |-> slide.id,
               arg |-> 0, ret |-> 0, before |-> slide]

Duplicate ==
  /\ calc.fn = "duplicate"
  /\ Len(calc.objs) <= MaxCopies
  /\ \E ref \in DOMAIN calc.objs :
       LET id == createSlideId(calc.lastId)
       IN  calc' = [calc EXCEPT
                      !.objs = Append(@, duplicateSlide(calc.objs[ref], id)),
                      !.lastId = id, !.arg = ref,
                      !.ret = Len(calc.objs) + 1,
                      !.before = calc.objs[ref]]
  /\ Rests

DuplicateSpec == InitDuplicate /\ [][Duplicate]_vars

(* ------------------------------ properties ----------------------------- *)
Called(r) == run[r].pc # "unused"

\* The run got past its checks and owns a sink.
Started(r) == run[r].pc \in {"decoding", "pacing", "loopDone", "aborted"}

\* n is max(1, round(d * FPS / 100)), said without the rounding operator:
\* below one and a half frames it is 1, otherwise d * FPS / 100 lies in
\* [n - 1/2, n + 1/2).
IsFrameCountOf(n, d) ==
  /\ n >= 1
  /\ IF 2 * FPS * d < 3 * 100 THEN n = 1
     ELSE 100 * (2 * n - 1) <= 2 * FPS * d /\ 2 * FPS * d < 100 * (2 * n + 1)

\* The count is the whole part of d * FPS / 100 or one more (or 1).
ExpectedCount(d) ==
  LET whole == (d * FPS) \div 100
  IN  CHOOSE n \in {1, whole, whole + 1} : IsFrameCountOf(n, d)

RECURSIVE ExpectedTotal(_)
ExpectedTotal(arr) ==
  IF arr = <<>> THEN 0
  ELSE ExpectedCount(Head(arr).duration) + ExpectedTotal(Tail(arr))

FramesOfSlide(log, index) ==
  Cardinality({k \in DOMAIN log : log[k].index = index})

\* a/b <= c/d and a/b < c/d for fractions with positive denominators.
FracLeq(x, y) == x[1] * y[2] <= y[1] * x[2]

FracLess(x, y) == x[1] * y[2] < y[1] * x[2]

\* C1: a call with an empty slide array is rejected with the validation
\* error, and by then nothing was rendered and no capability of the host
\* (MediaRecorder presence, codec support) was probed.
C1_EmptyFailsBeforeAnyProbe ==
  \A r \in Runs :
    (Called(r) /\ run[r].snap = <<>>) =>
      /\ run[r].promise = "rejected"
      /\ run[r].error = "Validation"
      /\ run[r].rendered = <<>>
      /\ run[r].probed = <<>>

\* C2: onProgress is called once per rendered frame, every value lies in
\* (0, 1], the values never decrease, and a run that resolved saw 1 as its
\* last value, with capturedFrames equal to totalFrames.
C2_ProgressPerFrame ==
  \A r \in Runs :
    LET p == run[r].progress
    IN  /\ Len(p) = Len(run[r].rendered)
        /\ \A k \in DOMAIN p :
             /\ p[k][2] > 0
             /\ 0 < p[k][1]
             /\ p[k][1] <= p[k][2]
        /\ \A k \in 1 .. Len(p) - 1 : FracLeq(p[k], p[k + 1])
        /\ run[r].promise = "resolved" =>
             /\ p # <<>>
             /\ p[Len(p)][1] = p[Len(p)][2]
             /\ run[r].capturedFrames = run[r].totalFrames

C2_Witness ==
  \E r \in Runs : run[r].promise = "resolved" /\ Len(run[r].progress) >= 3

\* C3: once a run is rejected because its sink reported an error, the sink
\* is not recording.
C3_SinkStoppedOnError ==
  \A r \in Runs :
    (run[r].promise = "rejected" /\ run[r].error = "Sink") =>
      run[r].rec # "recording"

\* C4: once the render loop of a run has thrown, the sink is stopped and
\* the run is rejected with the thrown error.
C4_ThrowRejectsWithThatError ==
  \A r \in Runs :
    run[r].pc = "aborted" =>
      /\ run[r].rec # "recording"
      /\ run[r].promise = "rejected"
      /\ run[r].error = "Thrown"

\* C5: while no export started from Home is in flight, exportState is idle
\* and exportProgress is 0.
C5_IdleBetweenRuns ==
  (\A r \in Runs : run[r].caller = "home" => run[r].promise # "pending") =>
    (exportState = "idle" /\ exportProgress = <<0, 1>>)

\* C6: totalFrames is the sum over the slides of max(1, round(duration *
\* 30)), a run whose loop has finished rendered exactly that many frames of
\* each slide, and 3s gives 90, 0.1s gives 3, 2s and 1s give 90 together.
C6_FrameCounts ==
  /\ FrameCount(300) = 90
  /\ FrameCount(10) = 3
  /\ TotalFrames(<<[duration |-> 200], [duration |-> 100]>>) = 90
  /\ \A r \in Runs :
       /\ Started(r) => run[r].totalFrames = ExpectedTotal(run[r].snap)
       /\ \A i \in DOMAIN run[r].snap :
            FramesOfSlide(run[r].rendered, i - 1)
              <= ExpectedCount(run[r].snap[i].duration)
       /\ run[r].pc = "loopDone" =>
            /\ Len(run[r].rendered) = run[r].totalFrames
            /\ \A i \in DOMAIN run[r].snap :
                 FramesOfSlide(run[r].rendered, i - 1)
                   = ExpectedCount(run[r].snap[i].duration)

C6_Witness ==
  \E r \in Runs :
    /\ run[r].pc = "loopDone"
    /\ Len(run[r].snap) = 2
    /\ Len(run[r].rendered) = 3

\* C7: the frames of a run come in slide-then-frame order: the first is
\* frame 0 of slide 0, each next one is the next frame of the same slide
\* or, after the last frame of a slide, frame 0 of the next slide; a loop
\* that finished ended on the last frame of the last slide.
C7_FrameOrder ==
  \A r \in Runs :
    LET log == run[r].rendered
        snap == run[r].snap
        last(i) == ExpectedCount(snap[i + 1].duration) - 1
    IN  /\ \A k \in DOMAIN log :
             IF k = 1 THEN log[k].index = 0 /\ log[k].frame = 0
             ELSE \/ /\ log[k].index = log[k - 1].index
                     /\ log[k].frame = log[k - 1].frame + 1
                  \/ /\ log[k].index = log[k - 1].index + 1
                     /\ log[k].frame = 0
                     /\ log[k - 1].frame = last(log[k - 1].index)
        /\ run[r].pc = "loopDone" =>
             /\ log # <<>>
             /\ log[Len(log)].index = Len(snap) - 1
             /\ log[Len(log)].frame = last(Len(snap) - 1)

C7_Witness ==
  \E r \in Runs :
    /\ run[r].pc = "loopDone"
    /\ \E k \in DOMAIN run[r].rendered : run[r].rendered[k].frame = 1
    /\ \E k \in DOMAIN run[r].rendered : run[r].rendered[k].index = 1

\* C8: the animation progress of frame f of a slide with frameCount frames
\* is 1 when frameCount is 1 and f / (frameCount - 1) otherwise: it lies in
\* [0, 1], is 0 on the first frame of a slide of several frames, 1 on the
\* last frame of every slide, and grows strictly from frame to frame.
C8_AnimationProgress ==
  \A r \in Runs :
    \A k \in DOMAIN run[r].rendered :
      LET e == run[r].rendered[k]
          fc == ExpectedCount(e.slide.duration)
      IN  /\ e.t[2] > 0
          /\ 0 <= e.t[1]
          /\ e.t[1] <= e.t[2]
          /\ fc = 1 => e.t[1] = e.t[2]
          /\ fc > 1 => e.t[1] * (fc - 1) = e.frame * e.t[2]
          /\ (fc > 1 /\ e.frame = 0) => e.t[1] = 0
          /\ e.frame = fc - 1 => e.t[1] = e.t[2]
          /\ (k > 1 /\ run[r].rendered[k - 1].index = e.index) =>
               FracLess(run[r].rendered[k - 1].t, e.t)

C8_Witness ==
  \E r \in Runs :
    /\ \E k \in DOMAIN run[r].rendered : run[r].rendered[k].frame = 1
    /\ \E k \in DOMAIN run[r].rendered :
         ExpectedCount(run[r].rendered[k].slide.duration) = 1

\* C9: whatever the editor does after a run was called, the array the run
\* holds is the array it was given, its totalFrames is that of the
\* snapshot, and its k-th frame is the k-th frame of the snapshot: the
\* slide as it was at the call, at the progress its frame index gives.
C9_SnapshotUnaffected ==
  \A r \in Runs :
    LET snap == run[r].snap
        log == run[r].rendered
    IN  Called(r) =>
          /\ heap[run[r].slides] = snap
          /\ Started(r) => run[r].totalFrames = ExpectedTotal(snap)
          /\ \A k \in DOMAIN log :
               LET e == log[k]
               IN  /\ e.index < Len(snap)
                   /\ e.slide = snap[e.index + 1]
                   /\ e.frame < ExpectedCount(e.slide.duration)
                   /\ k = ExpectedTotal(SubSeq(snap, 1, e.index))
                            + e.frame + 1
                   /\ FracLeq(e.t, FrameProgress(e.frame,
                                    ExpectedCount(e.slide.duration)))
                   /\ FracLeq(FrameProgress(e.frame,
                                    ExpectedCount(e.slide.duration)), e.t)

\* A frame of a run started from Home was drawn while Home already held
\* another array, with other content, than the one the run was given.
C9_Witness ==
  \E r \in Runs :
    /\ run[r].caller = "home"
    /\ slides # run[r].slides
    /\ heap[slides] # run[r].snap
    /\ \E k \in DOMAIN run[r].rendered : run[r].rendered[k].during = slides

\* C10: runs do not share a surface, and what a run holds came from its own
\* frames: its canvas shows its own last frame, its counter counts its own
\* frames, its chunks were encoded from its own frames, and the buffer it
\* returned is made of its own chunks.
C10_RunsIndependent ==
  \A r \in Runs :
    LET q == run[r]
    IN  /\ \A o \in Runs \ {r} :
             (q.canvas > 0 /\ run[o].canvas > 0) => q.canvas # run[o].canvas
        /\ q.capturedFrames = Len(q.rendered)
        /\ (q.canvas > 0 /\ q.rendered = <<>>) => canvases[q.canvas] = Blank
        /\ q.rendered # <<>> =>
             canvases[q.canvas] =
               [by |-> r, index |-> q.rendered[Len(q.rendered)].index,
                frame |-> q.rendered[Len(q.rendered)].frame]
        /\ \A k \in DOMAIN q.chunks : q.chunks[k].by \in {0, r}
        /\ \A k \in DOMAIN q.result :
             \A j \in DOMAIN q.result[k].parts :
               q.result[k].parts[j].by \in {0, r}

\* A run went through its whole loop and got a chunk from its sink while an
\* earlier run was still between two of its frames.
C10_Witness ==
  \E r \in Runs : \E o \in Runs :
    /\ o < r
    /\ run[o].pc = "pacing" /\ Len(run[o].rendered) >= 2
    /\ run[r].pc = "loopDone" /\ Len(run[r].rendered) >= 2
    /\ run[r].chunks # <<>>

Range(f) == {f[i] : i \in DOMAIN f}

\* The slides of the array run r was given that carry an image reference.
WithImage(r) ==
  {i \in DOMAIN run[r].snap : run[r].snap[i].imageDataUrl # ""}

\* C11: every decode is in flight from the call on (an entry is pending
\* exactly when its slide has a reference and its decode has not come back),
\* and while one decode is pending the sink is not started, no frame is
\* rendered and no progress is reported; once a frame is rendered every
\* decode has come back, in whatever order.
C11_DecodesBeforeFrames ==
  \A r \in Runs :
    LET q == run[r]
    IN  /\ Started(r) =>
             /\ DOMAIN q.images = DOMAIN q.snap
             /\ Range(q.decoded) \subseteq WithImage(r)
             /\ \A i \in DOMAIN q.images :
                  q.images[i] = "pending" <=>
                    (i \in WithImage(r) /\ i \notin Range(q.decoded))
        /\ (\E i \in DOMAIN q.images : q.images[i] = "pending") =>
             /\ q.pc = "decoding"
             /\ q.rec = "inactive"
             /\ ~q.stopQueued
             /\ q.rendered = <<>>
             /\ q.progress = <<>>
        /\ (q.rendered # <<>> \/ q.rec = "recording") =>
             Range(q.decoded) = WithImage(r)

\* The decodes of a run came back in reverse order and the run then
\* rendered.
C11_Witness ==
  \E r \in Runs : run[r].decoded = <<2, 1>> /\ Len(run[r].rendered) >= 2

\* C12: the image list is aligned with the slides; an entry is null exactly
\* when its slide has no reference or its decode has failed, and a bitmap
\* exactly when its decode has succeeded; a failed decode never rejects the
\* run; every frame is drawn with the entry of its slide, and a loop that
\* finished drew every frame of every slide, also of those without bitmap.
C12_DecodeFailureIsNull ==
  \A r \in Runs :
    LET q == run[r]
        url(i) == q.snap[i].imageDataUrl
    IN  Started(r) =>
          /\ Len(q.images) = Len(q.snap)
          /\ \A i \in DOMAIN q.images :
               /\ q.images[i] = "null" <=>
                    (url(i) = "" \/ (url(i) = "broken" /\ i \in Range(q.decoded)))
               /\ q.images[i] = "bitmap" <=>
                    (url(i) = "ok" /\ i \in Range(q.decoded))
          /\ q.promise = "rejected" => q.error \in {"Sink", "Thrown"}
          /\ \A k \in DOMAIN q.rendered :
               LET e == q.rendered[k]
               IN  /\ e.image = q.images[e.index + 1]
                   /\ url(e.index + 1) \in {"", "broken"} => e.image = "null"
                   /\ url(e.index + 1) = "ok" => e.image = "bitmap"
          /\ q.pc = "loopDone" =>
               \A i \in DOMAIN q.snap :
                 FramesOfSlide(q.rendered, i - 1)
                   = ExpectedCount(q.snap[i].duration)

\* A run whose first image failed to decode and whose second image decoded
\* has drawn all its frames and resolved.
C12_Witness ==
  \E r \in Runs :
    /\ run[r].promise = "resolved"
    /\ Len(run[r].snap) >= 2
    /\ run[r].snap[1].imageDataUrl = "broken"
    /\ run[r].images[1] = "null"
    /\ run[r].images[2] = "bitmap"
    /\ FramesOfSlide(run[r].rendered, 0) = 2

\* The host lets the program build a sink of type c: it reports c as
\* supported, or cannot report, and the constructor accepts c.
Usable(c) ==
  (~host.canReport \/ c \in host.supported) /\ c \in host.constructs

FirstUsable ==
  CHOOSE i \in DOMAIN mimeCandidates :
    /\ Usable(mimeCandidates[i])
    /\ \A j \in 1 .. i - 1 : ~Usable(mimeCandidates[j])

\* C13: a run that reaches the negotiation gets the sink of the first
\* candidate of vp9, vp8, webm that the host reports as supported (or cannot
\* report on) and can build; with no such candidate it gets the default
\* sink, and it fails with the constructor's error only if the default sink
\* cannot be built either.  Support is asked in list order, up to the
\* candidate taken.
C13_FirstUsableCandidate ==
  \A r \in Runs :
    LET q == run[r]
        asked == SubSeq(q.probed, 2, Len(q.probed))
    IN  (Called(r) /\ q.snap # <<>>) =>
          /\ IF \E i \in DOMAIN mimeCandidates : Usable(mimeCandidates[i])
             THEN /\ q.rec # "none"
                  /\ q.mime = mimeCandidates[FirstUsable]
                  /\ host.canReport =>
                       asked = SubSeq(mimeCandidates, 1, FirstUsable)
             ELSE IF "" \in host.constructs
             THEN q.rec # "none" /\ q.mime = ""
             ELSE /\ q.rec = "none"
                  /\ q.promise = "rejected"
                  /\ q.error = "Construction"
          /\ host.canReport => \E n \in 0 .. Len(mimeCandidates) :
                                 asked = SubSeq(mimeCandidates, 1, n)
          /\ ~host.canReport => asked = <<>>

\* The host reports vp9 as supported but cannot build the sink for it, and
\* the run has taken vp8.
C13_Witness ==
  /\ mimeCandidates[1] \in host.supported
  /\ mimeCandidates[1] \notin host.constructs
  /\ \E r \in Runs : run[r].rec = "recording" /\ run[r].mime = mimeCandidates[2]

\* C14: on a host without MediaRecorder every call is rejected with the
\* capability error, and no canvas was created, no image decode issued, no
\* codec probed, no sink built and no frame rendered.
C14_CapabilityErrorFirst ==
  ~host.hasMR =>
    /\ canvases = <<>>
    /\ \A r \in Runs :
         Called(r) =>
           /\ run[r].promise = "rejected"
           /\ run[r].error = "Capability"
           /\ run[r].canvas = 0
           /\ run[r].images = <<>>
           /\ run[r].probed = <<"MediaRecorder">>
           /\ run[r].rec = "none"
           /\ run[r].rendered = <<>>

\* Home has started an export of its slide on a host without MediaRecorder
\* and has shown the error.
C14_Witness ==
  /\ ~host.hasMR
  /\ alerts = <<"Capability">>
  /\ \E r \in Runs : run[r].caller = "home" /\ run[r].snap # <<>>

\* C15: a run that resolved had gone through its whole loop and asked its
\* sink to stop after the pacing wait of the last frame, and the stop event
\* was delivered; the buffer it returned is made of the non-empty chunks its
\* sink handed over, all of them, in the order they came, and carries the
\* type negotiated for the sink.
C15_BufferOnStop ==
  \A r \in Runs :
    LET q == run[r]
    IN  /\ q.result # <<>> <=> q.promise = "resolved"
        /\ q.promise = "resolved" =>
             LET blob == q.result[1]
                 n == Len(blob.parts)
             IN  /\ q.pc = "loopDone"
                 /\ Len(q.rendered) = q.totalFrames
                 /\ q.rec = "inactive"
                 /\ ~q.stopQueued
                 /\ Len(q.result) = 1
                 /\ q.mime # "" => blob.type = q.mime
                 /\ \A k \in 1 .. n : blob.parts[k].size > 0
                 /\ \A k \in 1 .. n - 1 :
                      blob.parts[k].seq < blob.parts[k + 1].seq
                 /\ {blob.parts[k].seq : k \in 1 .. n}
                      = {j \in DOMAIN q.delivered : q.delivered[j] > 0}
                 /\ \A k \in 1 .. n :
                      blob.parts[k].size = q.delivered[blob.parts[k].seq]

\* A run resolved with a buffer of two chunks.
C15_Witness ==
  \E r \in Runs :
    /\ run[r].promise = "resolved"
    /\ Len(run[r].result[1].parts) = 2

HomeRuns(outcome) ==
  {r \in Runs : run[r].caller = "home" /\ run[r].promise = outcome}

\* C16: a run that was rejected, for whatever reason, returned no buffer,
\* whatever chunks it had gathered; Home has made one download per export
\* that resolved, of the buffer that export returned, and has shown one
\* message per export that was rejected, with that export's error.
C16_NoOutputOnFailure ==
  /\ \A r \in Runs : run[r].promise = "rejected" => run[r].result = <<>>
  /\ Len(downloads) = Cardinality(HomeRuns("resolved"))
  /\ \A k \in DOMAIN downloads :
       \E r \in HomeRuns("resolved") : downloads[k] = run[r].result[1]
  /\ Len(alerts) = Cardinality(HomeRuns("rejected"))
  /\ \A k \in DOMAIN alerts :
       \E r \in HomeRuns("rejected") : alerts[k] = run[r].error

\* An export from Home failed after its sink had handed over a chunk, and
\* nothing was downloaded.
C16_Witness ==
  /\ downloads = <<>>
  /\ \E r \in HomeRuns("rejected") : run[r].chunks # <<>>

\* The words of a text: its maximal runs of letters.
RECURSIVE WordsOf(_)
WordsOf(text) ==
  IF text = <<>> THEN <<>>
  ELSE IF Head(text) = " " THEN WordsOf(Tail(text))
       ELSE LET rest == WordsOf(Tail(text))
            IN  IF Len(text) > 1 /\ text[2] # " "
                THEN <<<<Head(text)>> \o Head(rest)>> \o Tail(rest)
                ELSE <<<<Head(text)>>>> \o rest

Wrapped == calc.fn = "wrap" /\ calc.done

\* C17: with a measurer proportional to the character count, a text of N
\* words that are each wider than half of maxWidth is committed as N lines,
\* the k-th line being the k-th word, and the empty text commits no line.
C17_OneWordPerLine ==
  Wrapped =>
    LET words == WordsOf(calc.text)
    IN  /\ calc.text = <<>> => calc.lines = <<>>
        /\ (/\ words # <<>>
            /\ \A k \in DOMAIN words :
                 2 * MeasureText(words[k], calc.unit) > calc.maxWidth) =>
             /\ Len(calc.lines) = Len(words)
             /\ \A k \in DOMAIN words : calc.lines[k].text = words[k]

\* C18: the empty text commits no line and returns y + lineHeight; a text
\* that is one word wider than maxWidth commits that word, whole, as its
\* only line, at y; the k-th committed line is at y + (k-1) * lineHeight,
\* and the value returned is one lineHeight below the last committed line.
C18_CursorBelowLastLine ==
  Wrapped =>
    LET n == Len(calc.lines)
    IN  /\ calc.text = <<>> =>
             calc.lines = <<>> /\ calc.ret = calc.y + calc.lineHeight
        /\ (/\ calc.text # <<>>
            /\ \A i \in DOMAIN calc.text : calc.text[i] # " "
            /\ MeasureText(calc.text, calc.unit) > calc.maxWidth) =>
             calc.lines = <<[text |-> calc.text, y |-> calc.y]>>
        /\ \A k \in 1 .. n :
             calc.lines[k].y = calc.y + (k - 1) * calc.lineHeight
        /\ n > 0 => calc.ret = calc.lines[n].y + calc.lineHeight

\* C19: easeInOutCubic gives 0 at 0, 1/2 at 1/2 and 1 at 1, stays within
\* [0, 1], and for a <= b in [0, 1] its value at a is at most its value at
\* b, also when a lies below 1/2 and b does not.
C19_EaseMonotone ==
  (calc.fn = "ease" /\ calc.done) =>
    /\ calc.fa[2] > 0 /\ calc.fb[2] > 0
    /\ calc.a = 0 => calc.fa[1] = 0
    /\ calc.a = EaseHalf => 2 * calc.fa[1] = calc.fa[2]
    /\ calc.a = 2 * EaseHalf => calc.fa[1] = calc.fa[2]
    /\ 0 <= calc.fa[1] /\ calc.fa[1] <= calc.fa[2]
    /\ FracLeq(calc.fa, calc.fb)

\* The two points lie next to each other on the two sides of the switch of
\* branch.
C19_Witness ==
  /\ calc.fn = "ease" /\ calc.done
  /\ calc.a = EaseHalf - 1
  /\ calc.b = EaseHalf

\* C20: whatever was drawn before, after drawSlideFrame(slide, image, t)
\* the surface shows what the same call shows on a fresh canvas, nothing of
\* the earlier frames, and the context is as it was: transform, alpha, fill
\* style, font and baseline at their initial values and nothing left on the
\* stack of saved states.
C20_FrameDependsOnArgsOnly ==
  (calc.fn = "draw" /\ calc.args # <<>>) =>
    LET a == calc.args
        alone == drawSlideFrame(FreshSurface, a[1], a[2], a[3])
    IN  /\ calc.c.ops = alone.ops
        /\ calc.c.ops[1].kind = "fillRect"
        /\ calc.c.ops[1].what = FullCanvas
        /\ calc.c.ops[1].state.fillStyle = a[1].backgroundColor
        /\ calc.c.state = FreshState
        /\ calc.c.stack = <<>>

\* A frame without image was drawn after a frame of another slide with an
\* image, at another progress.
C20_Witness ==
  /\ calc.fn = "draw"
  /\ calc.prev # <<>>
  /\ calc.prev[1] # calc.args[1]
  /\ calc.prev[2].bitmap
  /\ ~calc.args[2].bitmap
  /\ calc.prev[3] # calc.args[3]

\* C21: the slide duplicateSlide returns is a new object whose id differs
\* from the id of the slide it was given and from every other id in use,
\* whose title is the title given followed by " Copy", and whose other
\* fields (subtitle, colours, duration, alignment, image reference) are
\* those of the slide given, which is itself as it was before the call.
C21_DuplicateIsCopy ==
  (calc.fn = "duplicate" /\ calc.ret > 0) =>
    LET given == calc.objs[calc.arg]
        copy == calc.objs[calc.ret]
    IN  /\ calc.ret # calc.arg
        /\ given = calc.before
        /\ copy.id # given.id
        /\ \A ref \in DOMAIN calc.objs :
             ref # calc.ret => calc.objs[ref].id # copy.id
        /\ copy.title = given.title \o " Copy"
        /\ DOMAIN copy = DOMAIN given
        /\ \A field \in DOMAIN given \ {"id", "title"} :
             copy[field] = given[field]

\* A copy of a slide with an image reference was itself duplicated.
C21_Witness ==
  /\ calc.fn = "duplicate"
  /\ calc.arg > 1
  /\ calc.ret > calc.arg
  /\ calc.objs[calc.ret].imageDataUrl = "ok"
  /\ calc.objs[calc.ret].title = "New Scene Copy Copy"

\* C22: a frame is rendered, then signalled to the sink, then reported to
\* the progress callback, then waited for, in this order and once each;
\* every rendered frame has had its capture signal, every frame of a loop
\* that has not thrown has had its wait, and a frame is rendered only when
\* the waits of all frames before it have elapsed.
C22_RenderSignalProgressWait ==
  \A r \in Runs :
    LET q == run[r]
    IN  /\ q.requested = Len(q.rendered)
        /\ (q.rendered # <<>> /\ q.pc # "aborted") =>
             q.steps = <<"render", "signal", "progress", "wait">>
        /\ q.pc # "aborted" => q.waits = Len(q.rendered)
        /\ q.elapsed <= q.waits
        /\ Len(q.rendered) <= q.elapsed + 1
        /\ q.pc = "pacing" <=> q.elapsed < q.waits

\* C23: once a run was rejected because its sink reported an error, no
\* step renders a further frame of that run or calls its progress callback
\* again.
C23_SinkErrorAbortsLoop ==
  [][\A r \in Runs :
       (run[r].promise = "rejected" /\ run[r].error = "Sink") =>
         /\ run'[r].rendered = run[r].rendered
         /\ run'[r].progress = run[r].progress]_vars

\* C24: when every decode comes back, every pacing timer fires and every
\* stop event asked for is delivered, a run that was started and is still
\* pending is settled later on: resolved with its buffer or rejected with
\* its error.
C24_RunsSettle ==
  \A r \in Runs :
    (run[r].promise = "pending") ~>
      \/ run[r].promise = "resolved" /\ run[r].result # <<>>
      \/ run[r].promise = "rejected" /\ run[r].error # ""

\* A run that had to wait for two decodes and three timers has resolved.
C24_Witness ==
  \E r \in Runs :
    /\ run[r].promise = "resolved"
    /\ Len(run[r].decoded) = 2
    /\ run[r].elapsed = 3

\* C25: with a measurer proportional to the character count (monotone in
\* appended text), every line renderWrappedText commits is non-empty, and a
\* committed line of two or more words measures at most maxWidth.
C25_LinesNonEmptyAndFit ==
  Wrapped =>
    \A k \in DOMAIN calc.lines :
      LET text == calc.lines[k].text
      IN  /\ text # <<>>
          /\ Len(WordsOf(text)) >= 2 =>
               MeasureText(text, calc.unit) <= calc.maxWidth

\* C26: whatever edits were made since the editor opened on its one slide,
\* the slide list holds at least one slide, and every export started from
\* the editor was handed a non-empty list and was not refused as empty.
C26_SlideListNeverEmpty ==
  /\ Len(heap[slides]) >= 1
  /\ \A r \in Runs :
       run[r].caller = "home" =>
         /\ Len(run[r].snap) >= 1
         /\ run[r].error # "Validation"

\* A slide was added and the first slide was removed, and the editor then
\* started an export of the one slide that is left.
C26_Witness ==
  /\ Len(heap[slides]) = 1
  /\ heap[slides][1].id = 2
  /\ \E r \in Runs :
       /\ run[r].caller = "home"
       /\ run[r].slides = slides
       /\ run[r].promise = "pending"

====
